---- MODULE Spec2Model ----
(***************************************************************************)
(* Model of src/bin/concurrency_testing.rs: a pool of `concurrency`        *)
(* workers that POST to a streaming endpoint in an endless loop and send   *)
(* one LatencyResult per successful attempt over a bounded mpsc channel,   *)
(* a collector (main) that receives `requests` results, and the report     *)
(* that sorts the latencies and prints nearest-rank percentiles.           *)
(*                                                                         *)
(* The runtime is tokio's multi-threaded runtime (#[tokio::main]), so the  *)
(* workers run in parallel: every access to shared state (the `printed`    *)
(* flag, the channel, stdout) is a step of its own, and the code between   *)
(* two such accesses or await points is folded into one step.              *)
(***************************************************************************)
EXTENDS Integers, Sequences, FiniteSets, TLC

\* ---------------------------------------------------------------- bounds
MaxConcurrency == 2     \* args.concurrency ranges over 1..MaxConcurrency
MaxRequests == 2        \* args.requests ranges over 1..MaxRequests
MaxClock == 1           \* the monotonic clock runs from 0 to MaxClock
MaxChunks == 2          \* a response body delivers at most MaxChunks chunks
MaxLen == 3             \* longest list handed to the percentile closure
MaxVal == 2             \* largest latency in a list handed to the closure

\* ----------------------------------------------------------------- state
VARIABLES
    requests,       \* args.requests
    concurrency,    \* args.concurrency
    print_enabled,  \* args.print_response
    backend,        \* environment: the server under test, see Backends
    now,            \* Instant::now(), monotonic
    printed,        \* Arc<AtomicBool>
    chan,           \* buffer of mpsc::channel(args.requests)
    senders,        \* live Sender handles: result_sender and its clones
    results,        \* Vec<LatencyResult> of the collector
    main_pc,        \* "collect" while the collector loop runs, then "done"
    total_time,     \* start.elapsed() read when the collector loop ends
    report,         \* what the report prints
    exit_status,    \* exit status of the process once main has returned
    stdout,         \* per worker: what it has written to stdout, in order
    pc,             \* per worker: position in the loop body
    req_start,      \* per worker: req_start
    should_print,   \* per worker: should_print
    ttft,           \* per worker: ttft
    total,          \* per worker: total
    nread,          \* per worker: chunks taken from the response stream
    last_read,      \* per worker: outcome of the latest stream.next() under timeout
    p_data, p_perc, p_out   \* arguments and result of the percentile closure

cfgVars == <<requests, concurrency, print_enabled, backend>>
mainVars == <<results, main_pc, total_time, report, exit_status>>
workerVars == <<pc, req_start, should_print, ttft, total, nread, last_read>>
pVars == <<p_data, p_perc, p_out>>
vars == <<cfgVars, now, printed, chan, senders, mainVars, stdout, workerVars, pVars>>

None == -1

\* The server under test: "ok" can produce every outcome, "http500" never
\* answers with a success status, "no_body" never delivers a first chunk.
Backends == {"ok", "http500", "no_body"}

\* Faulty variant of Workers: the spawn loop runs over 0..=args.concurrency.
WorkersInclusive(c) == 0..c

\* One task is spawned per iteration of `for _ in 0..args.concurrency`.
Workers(c) == 1..c

\* Faulty variant of Capacity: a rendezvous channel without a buffer.
CapacityZero(n) == 0

\* Capacity of the results channel: mpsc::channel(args.requests).
Capacity(n) == n

\* Instant::elapsed on the monotonic clock.
Elapsed(t0) == now - t0

\* LatencyResult { ttft, total }
LatencyResult(a, b) == [ttft |-> a, total |-> b]

\* -------------------------------------------------------------- statistics
\* to_ms: nanoseconds to milliseconds, kept as the exact fraction ns / 10^6.
to_ms(ns) == <<ns, 1000000>>

Min(a, b) == IF a <= b THEN a ELSE b

\* Faulty variant of PIndex: the product is rounded to the nearest index, not truncated.
PIndexRounded(len, perc) == Min((len * perc + 50) \div 100, len - 1)

\* `as usize` on an f64: the fraction is dropped and a negative value gives 0.
AsUsize(x) == IF x < 0 THEN 0 ELSE x

\* The index computed by closure p: (len * perc).min(len - 1) as usize,
\* with perc given in hundredths.
PIndex(len, perc) == AsUsize(Min((len * perc) \div 100, len - 1))

\* Closure p: to_ms(data[idx]); Rust sequences are 0-based. An index outside
\* the slice panics: no value, written <<>>.
p(data, perc) ==
    LET idx == PIndex(Len(data), perc) IN
    IF idx + 1 \in DOMAIN data THEN to_ms(data[idx + 1]) ELSE <<>>

RECURSIVE Insert(_, _)
Insert(x, s) ==
    IF s = <<>> THEN <<x>>
    ELSE IF x <= Head(s) THEN <<x>> \o s
    ELSE <<Head(s)>> \o Insert(x, Tail(s))

\* Faulty variant of Sort: the lists are left in arrival order.
SortOmitted(s) == s

\* sort_unstable on a Vec<u128>: ascending order.
RECURSIVE Sort(_)
Sort(s) == IF s = <<>> THEN <<>> ELSE Insert(Head(s), Sort(Tail(s)))

RECURSIVE Sum(_)
Sum(s) == IF s = <<>> THEN 0 ELSE Head(s) + Sum(Tail(s))

\* Avg: sum of to_ms(x) divided by success, as the exact fraction.
Avg(s, n) == <<Sum(s), 1000000 * n>>

Stats(res, elapsed) ==
    LET success == Len(res)
        ttfts == Sort([i \in 1..Len(res) |-> res[i].ttft])
        totals == Sort([i \in 1..Len(res) |-> res[i].total])
    IN  [ttft_avg |-> Avg(ttfts, success),
         ttft_p50 |-> p(ttfts, 50), ttft_p95 |-> p(ttfts, 95), ttft_p99 |-> p(ttfts, 99),
         total_avg |-> Avg(totals, success),
         total_p50 |-> p(totals, 50), total_p95 |-> p(totals, 95), total_p99 |-> p(totals, 99),
         rps |-> <<success, elapsed>>]

\* ------------------------------------------------------------------- init
Init ==
    /\ requests \in 1..MaxRequests
    /\ concurrency \in 1..MaxConcurrency
    /\ print_enabled \in BOOLEAN
    /\ backend \in Backends
    /\ now = 0
    /\ printed = FALSE
    /\ chan = <<>>
    /\ senders = 1 + concurrency
    /\ results = <<>>
    /\ main_pc = "collect"
    /\ total_time = None
    /\ report = <<>>
    /\ exit_status = None
    /\ stdout = [w \in Workers(concurrency) |-> <<>>]
    /\ pc = [w \in Workers(concurrency) |-> "start"]
    /\ req_start = [w \in Workers(concurrency) |-> None]
    /\ should_print = [w \in Workers(concurrency) |-> FALSE]
    /\ ttft = [w \in Workers(concurrency) |-> None]
    /\ total = [w \in Workers(concurrency) |-> None]
    /\ nread = [w \in Workers(concurrency) |-> 0]
    /\ last_read = [w \in Workers(concurrency) |-> "none"]
    /\ p_data = <<>>
    /\ p_perc = 0
    /\ p_out = <<>>

\* ------------------------------------------------------------------ clock
Tick ==
    /\ main_pc # "done"
    /\ now < MaxClock
    /\ now' = now + 1
    /\ UNCHANGED <<cfgVars, senders, printed, chan, mainVars, stdout, workerVars, pVars>>

\* ---------------------------------------------------------------- workers
\* The tasks live until the process exits.
Running(w) == w \in DOMAIN pc /\ main_pc # "done"

\* Top of the loop body: the locals of the previous iteration are gone,
\* req_start is read and the request is sent.
NewAttempt(w) ==
    /\ pc' = [pc EXCEPT ![w] = "await_status"]
    /\ req_start' = [req_start EXCEPT ![w] = now]
    /\ should_print' = [should_print EXCEPT ![w] = FALSE]
    /\ ttft' = [ttft EXCEPT ![w] = None]
    /\ total' = [total EXCEPT ![w] = None]
    /\ nread' = [nread EXCEPT ![w] = 0]
    /\ last_read' = [last_read EXCEPT ![w] = "none"]

\* The spawned task is polled for the first time.
Start(w) ==
    /\ Running(w)
    /\ pc[w] = "start"
    /\ NewAttempt(w)
    /\ UNCHANGED <<cfgVars, senders, now, printed, chan, mainVars, stdout, pVars>>

\* Faulty variant of TransportError: the arm is `break`, the task ends and
\* drops its Sender.
TransportErrorExits(w) ==
    /\ Running(w)
    /\ pc[w] = "await_status"
    /\ pc' = [pc EXCEPT ![w] = "exited"]
    /\ senders' = senders - 1
    /\ UNCHANGED <<cfgVars, now, printed, chan, mainVars, stdout,
                   req_start, should_print, ttft, total, nread, last_read, pVars>>

\* send().await returns Err(_): continue.
TransportError(w) ==
    /\ Running(w)
    /\ pc[w] = "await_status"
    /\ NewAttempt(w)
    /\ UNCHANGED <<cfgVars, senders, now, printed, chan, mainVars, stdout, pVars>>

\* Faulty variant of StatusNotSuccess: the `continue` is missing and the worker goes
\* on to read the body of the error response.
StatusNotSuccessFallsThrough(w) ==
    /\ Running(w)
    /\ pc[w] = "await_status"
    /\ pc' = [pc EXCEPT ![w] = "first_chunk"]
    /\ UNCHANGED <<cfgVars, senders, now, printed, chan, mainVars, stdout,
                   req_start, should_print, ttft, total, nread, last_read, pVars>>

\* send().await returns Ok(resp) with !resp.status().is_success(): continue.
StatusNotSuccess(w) ==
    /\ Running(w)
    /\ pc[w] = "await_status"
    /\ NewAttempt(w)
    /\ UNCHANGED <<cfgVars, senders, now, printed, chan, mainVars, stdout, pVars>>

\* Faulty variant of StatusSuccess: the test of print_enabled is missing.
StatusSuccessAlwaysPrints(w) ==
    /\ Running(w)
    /\ pc[w] = "await_status"
    /\ backend # "http500"
    /\ IF ~printed
       THEN /\ should_print' = [should_print EXCEPT ![w] = TRUE]
            /\ pc' = [pc EXCEPT ![w] = "store_printed"]
       ELSE /\ should_print' = [should_print EXCEPT ![w] = FALSE]
            /\ pc' = [pc EXCEPT ![w] = "first_chunk"]
    /\ UNCHANGED <<cfgVars, senders, now, printed, chan, mainVars, stdout,
                   req_start, ttft, total, nread, last_read, pVars>>

\* send().await returns Ok(resp) with a success status; the stream is opened
\* and print_enabled && !printed.load(Relaxed) is evaluated.
StatusSuccess(w) ==
    /\ Running(w)
    /\ pc[w] = "await_status"
    /\ backend # "http500"
    /\ IF print_enabled /\ ~printed
       THEN /\ should_print' = [should_print EXCEPT ![w] = TRUE]
            /\ pc' = [pc EXCEPT ![w] = "store_printed"]
       ELSE /\ should_print' = [should_print EXCEPT ![w] = FALSE]
            /\ pc' = [pc EXCEPT ![w] = "first_chunk"]
    /\ UNCHANGED <<cfgVars, senders, now, printed, chan, mainVars, stdout,
                   req_start, ttft, total, nread, last_read, pVars>>

\* printed.store(true, Relaxed)
StorePrinted(w) ==
    /\ Running(w)
    /\ pc[w] = "store_printed"
    /\ printed' = TRUE
    /\ pc' = [pc EXCEPT ![w] = "first_chunk"]
    /\ UNCHANGED <<cfgVars, senders, now, chan, mainVars, stdout,
                   req_start, should_print, ttft, total, nread, last_read, pVars>>

\* if should_print { print!(..) }: the text is appended to the task's output.
Echo(w, text) ==
    IF should_print[w] THEN [stdout EXCEPT ![w] = Append(@, text)] ELSE stdout

\* timeout(args.timeout, stream.next()) yields Ok(Some(Ok(chunk))).
FirstChunkOk(w) ==
    /\ Running(w)
    /\ pc[w] = "first_chunk"
    /\ backend # "no_body"
    /\ stdout' = Echo(w, "chunk")
    /\ last_read' = [last_read EXCEPT ![w] = "chunk"]
    /\ ttft' = [ttft EXCEPT ![w] = Elapsed(req_start[w])]
    /\ nread' = [nread EXCEPT ![w] = 1]
    /\ pc' = [pc EXCEPT ![w] = "drain"]
    /\ UNCHANGED <<cfgVars, senders, now, printed, chan, mainVars,
                   req_start, should_print, total, pVars>>

\* Any other outcome of the first read: continue.
FirstChunkOutcomes == {"timeout", "error", "end_of_stream"}

\* Faulty variant of FirstChunkFail: the catch-all arm yields a zero ttft instead of
\* `continue`, so the attempt goes on to the drain loop.
FirstChunkFailFallsThrough(w) ==
    /\ Running(w)
    /\ pc[w] = "first_chunk"
    /\ \E outcome \in FirstChunkOutcomes :
        /\ last_read' = [last_read EXCEPT ![w] = outcome]
        /\ ttft' = [ttft EXCEPT ![w] = 0]
        /\ pc' = [pc EXCEPT ![w] = "drain"]
    /\ UNCHANGED <<cfgVars, senders, now, printed, chan, mainVars, stdout,
                   req_start, should_print, total, nread, pVars>>

FirstChunkFail(w) ==
    /\ Running(w)
    /\ pc[w] = "first_chunk"
    /\ \E outcome \in FirstChunkOutcomes : NewAttempt(w)
    /\ UNCHANGED <<cfgVars, senders, now, printed, chan, mainVars, stdout, pVars>>

\* One iteration of the while-let loop: a further chunk within 100 ms.
DrainChunk(w) ==
    /\ Running(w)
    /\ pc[w] = "drain"
    /\ nread[w] < MaxChunks
    /\ stdout' = Echo(w, "chunk")
    /\ nread' = [nread EXCEPT ![w] = nread[w] + 1]
    /\ last_read' = [last_read EXCEPT ![w] = "chunk"]
    /\ UNCHANGED <<cfgVars, senders, now, printed, chan, mainVars,
                   pc, req_start, should_print, ttft, total, pVars>>

\* The while-let pattern fails to match: the loop ends, the end marker is
\* printed when should_print, and total is read.
DrainOutcomes == {"quiet", "error", "end_of_stream"}

\* Faulty variant of TotalElapsed: total is measured from the first chunk.
TotalSinceFirstChunk(w) == Elapsed(req_start[w] + ttft[w])

\* total = req_start.elapsed()
TotalElapsed(w) == Elapsed(req_start[w])

DrainEnd(w) ==
    /\ Running(w)
    /\ pc[w] = "drain"
    /\ \E outcome \in DrainOutcomes :
        /\ stdout' = Echo(w, "RESPONSE END")
        /\ last_read' = [last_read EXCEPT ![w] = outcome]
        /\ total' = [total EXCEPT ![w] = TotalElapsed(w)]
        /\ pc' = [pc EXCEPT ![w] = "send"]
    /\ UNCHANGED <<cfgVars, senders, now, printed, chan, mainVars,
                   req_start, should_print, ttft, nread, pVars>>

\* Faulty variant of Send: the channel is unbounded and a send never waits.
SendUnbounded(w) ==
    /\ Running(w)
    /\ pc[w] = "send"
    /\ chan' = Append(chan, LatencyResult(ttft[w], total[w]))
    /\ NewAttempt(w)
    /\ UNCHANGED <<cfgVars, senders, now, printed, mainVars, stdout, pVars>>

\* Faulty variant of Send: the task returns after its first send instead of looping.
SendThenExit(w) ==
    /\ Running(w)
    /\ pc[w] = "send"
    /\ Len(chan) < Capacity(requests)
    /\ chan' = Append(chan, LatencyResult(ttft[w], total[w]))
    /\ pc' = [pc EXCEPT ![w] = "exited"]
    /\ UNCHANGED <<cfgVars, senders, now, printed, mainVars, stdout,
                   req_start, should_print, ttft, total, nread, last_read, pVars>>

\* sender.send(LatencyResult { ttft, total }).await completes when the
\* buffer has room; the loop body ends and the next iteration begins.
Send(w) ==
    /\ Running(w)
    /\ pc[w] = "send"
    /\ Len(chan) < Capacity(requests)
    /\ chan' = Append(chan, LatencyResult(ttft[w], total[w]))
    /\ NewAttempt(w)
    /\ UNCHANGED <<cfgVars, senders, now, printed, mainVars, stdout, pVars>>

Worker(w) ==
    \/ Start(w)
    \/ TransportError(w)
    \/ StatusNotSuccess(w)
    \/ StatusSuccess(w)
    \/ StorePrinted(w)
    \/ FirstChunkOk(w)
    \/ FirstChunkFail(w)
    \/ DrainChunk(w)
    \/ DrainEnd(w)
    \/ Send(w)

\* -------------------------------------------------------------- collector
\* Faulty variant of LoopOver: the loop runs over 0..=args.requests.
LoopOverInclusive(n) == n > requests

\* The loop `for _ in 0..args.requests` is over after this many pushes.
LoopOver(n) == n >= requests

\* Faulty variant of ReportOf: the test `if success > 0` is missing.
ReportOfUnguarded(res, elapsed) ==
    LET success == Len(res) IN
    [total |-> requests, success |-> success, failed |-> requests - success,
     stats |-> Stats(res, elapsed)]

\* What main prints after the loop: the counts, and the statistics when
\* success > 0.
ReportOf(res, elapsed) ==
    LET success == Len(res) IN
    [total |-> requests, success |-> success, failed |-> requests - success,
     stats |-> IF success > 0 THEN Stats(res, elapsed) ELSE <<>>]

\* recv().await yields Some(res) as soon as the buffer holds a sample.
RecvSome == chan # <<>>

\* One iteration: recv().await yields Some(res), which is pushed. After the
\* last iteration main runs to its end without awaiting: total_time is read,
\* the report is printed and Ok(()) ends the process and its tasks.
CollectorRecv ==
    /\ main_pc = "collect"
    /\ RecvSome
    /\ results' = Append(results, Head(chan))
    /\ chan' = Tail(chan)
    /\ IF LoopOver(Len(results) + 1)
       THEN /\ main_pc' = "done"
            /\ total_time' = Elapsed(0)
            /\ report' = ReportOf(results', total_time')
            /\ exit_status' = 0
       ELSE UNCHANGED <<main_pc, total_time, report, exit_status>>
    /\ UNCHANGED <<cfgVars, senders, now, printed, stdout, workerVars, pVars>>

\* recv().await yields None when the buffer is empty and every Sender is
\* dropped.
RecvNone == chan = <<>> /\ senders = 0

\* recv().await yields None: break. main runs to its end as after the last
\* iteration: total_time, the report, Ok(()).
CollectorClosed ==
    /\ main_pc = "collect"
    /\ RecvNone
    /\ main_pc' = "done"
    /\ total_time' = Elapsed(0)
    /\ report' = ReportOf(results, total_time')
    /\ exit_status' = 0
    /\ UNCHANGED <<cfgVars, senders, now, printed, chan, results, stdout, workerVars, pVars>>

\* CollectorClosed is no disjunct of Next: main holds result_sender until it
\* returns and no task drops its clone, so RecvNone never holds in a run of
\* the program (NoEarlyReturn below states it).
Next ==
    \/ Tick
    \/ \E w \in DOMAIN pc : Worker(w)
    \/ CollectorRecv

Spec == Init /\ [][Next]_vars

\* ------------------------------------------------------------ fair runs
WorkerIds == 1..MaxConcurrency

\* Every task and the collector keep being scheduled, and no worker's
\* attempts fail forever: a success status and a first chunk, being possible
\* again and again, eventually arrive.
Fairness ==
    /\ \A w \in WorkerIds :
        /\ WF_vars(Worker(w))
        /\ SF_vars(StatusSuccess(w))
        /\ SF_vars(FirstChunkOk(w))
    /\ WF_vars(CollectorRecv)

\* No guard reads the clock or a measured duration, so fair runs are checked
\* with the clock standing still.
NextUntimed ==
    \/ \E w \in DOMAIN pc : Worker(w)
    \/ CollectorRecv

FairSpec == Init /\ [][NextUntimed]_vars /\ Fairness

\* ------------------------------------------- the percentile closure alone
RECURSIVE SortedLists(_)
SortedLists(n) ==
    IF n = 0 THEN {<<>>}
    ELSE LET shorter == SortedLists(n - 1) IN
         shorter \cup {Append(s, v) : s \in {t \in shorter : Len(t) = n - 1}, v \in 0..MaxVal}

IsSorted(s) == \A i \in 1..(Len(s) - 1) : s[i] <= s[i + 1]

InitStats ==
    /\ requests = 1
    /\ concurrency = 1
    /\ print_enabled = FALSE
    /\ backend = "ok"
    /\ now = 0
    /\ printed = FALSE
    /\ chan = <<>>
    /\ senders = 1 + concurrency
    /\ results = <<>>
    /\ main_pc = "done"
    /\ total_time = None
    /\ report = <<>>
    /\ exit_status = None
    /\ stdout = [w \in Workers(concurrency) |-> <<>>]
    /\ pc = [w \in Workers(concurrency) |-> "start"]
    /\ req_start = [w \in Workers(concurrency) |-> None]
    /\ should_print = [w \in Workers(concurrency) |-> FALSE]
    /\ ttft = [w \in Workers(concurrency) |-> None]
    /\ total = [w \in Workers(concurrency) |-> None]
    /\ nread = [w \in Workers(concurrency) |-> 0]
    /\ last_read = [w \in Workers(concurrency) |-> "none"]
    /\ p_data \in {s \in SortedLists(MaxLen) : s # <<>> /\ IsSorted(s)}
    /\ p_perc \in 0..99
    /\ p_out = <<>>

\* One call p(&data, perc) on a sorted, non-empty slice.
ApplyP ==
    /\ p_out = <<>>
    /\ p_out' = [idx |-> PIndex(Len(p_data), p_perc), ms |-> p(p_data, p_perc)]
    /\ UNCHANGED <<cfgVars, senders, now, printed, chan, mainVars, stdout, workerVars,
                   p_data, p_perc>>

NextStats == ApplyP

SpecStats == InitStats /\ [][NextStats]_vars

\* --------------------------- the collector and the report on their own
\* Every LatencyResult with durations up to MaxVal.
SampleSet == {r \in [ttft : 0..MaxVal, total : 0..MaxVal] : r.ttft <= r.total}

RECURSIVE SampleLists(_)
SampleLists(n) ==
    IF n = 0 THEN {<<>>}
    ELSE LET shorter == SampleLists(n - 1) IN
         shorter \cup {Append(s, r) : s \in {t \in shorter : Len(t) = n - 1}, r \in SampleSet}

\* The collector loop and the code after it, run on a channel that holds
\* some samples and whose Senders are all gone.
InitTail ==
    /\ requests \in 1..MaxLen
    /\ concurrency = 0
    /\ print_enabled = FALSE
    /\ backend = "ok"
    /\ now \in 0..MaxClock
    /\ printed = FALSE
    /\ chan \in {c \in SampleLists(MaxLen) : Len(c) <= Capacity(requests)}
    /\ senders = 0
    /\ results = <<>>
    /\ main_pc = "collect"
    /\ total_time = None
    /\ report = <<>>
    /\ exit_status = None
    /\ stdout = [w \in Workers(concurrency) |-> <<>>]
    /\ pc = [w \in Workers(concurrency) |-> "start"]
    /\ req_start = [w \in Workers(concurrency) |-> None]
    /\ should_print = [w \in Workers(concurrency) |-> FALSE]
    /\ ttft = [w \in Workers(concurrency) |-> None]
    /\ total = [w \in Workers(concurrency) |-> None]
    /\ nread = [w \in Workers(concurrency) |-> 0]
    /\ last_read = [w \in Workers(concurrency) |-> "none"]
    /\ p_data = <<>>
    /\ p_perc = 0
    /\ p_out = <<>>

NextTail ==
    \/ CollectorRecv
    \/ CollectorClosed

SpecTail == InitTail /\ [][NextTail]_vars

\* ================================================================ claims
Range(s) == {s[i] : i \in DOMAIN s}

\* Workers that have decided to echo: should_print is set, or text was written.
Echoers == {w \in DOMAIN pc : should_print[w] \/ stdout[w] # <<>>}

\* C1: at most one worker over the whole run ever decides to echo a response
\* body, however the load and the store of the printed flag interleave.
AtMostOneEchoer == Cardinality(Echoers) <= 1

\* C2: the results never hold more than `requests` samples, and the collector
\* has returned exactly when their number is `requests`.
CollectorExact ==
    /\ Len(results) <= requests
    /\ main_pc = "done" <=> Len(results) = requests
    /\ main_pc = "collect" <=> Len(results) < requests

CollectorExactWitness ==
    /\ main_pc = "done"
    /\ requests = MaxRequests
    /\ Len(results) = requests
    /\ chan # <<>>

\* Workers whose request is sent and not finished: awaiting the status,
\* between the status and the first chunk, or draining.
InFlight == {w \in DOMAIN pc : pc[w] \in {"await_status", "store_printed", "first_chunk", "drain"}}

\* C3: at most `concurrency` requests are in flight in every reachable state.
AtMostCInFlight == Cardinality(InFlight) <= concurrency

AtMostCInFlightWitness ==
    /\ concurrency = MaxConcurrency
    /\ Cardinality(InFlight) = concurrency
    /\ \E w \in DOMAIN pc : pc[w] = "drain"

\* C4: once the printed flag is set, a response body is echoed in full: the
\* attempt that claimed the flag is still running, or an echoed body has been
\* completed.
FlagSetBodyEchoed ==
    printed => \E w \in DOMAIN pc : should_print[w] \/ "RESPONSE END" \in Range(stdout[w])

\* C5: a sample enters the channel only from an attempt that got a success
\* status and a first chunk, one per attempt, after which the worker starts
\* the next attempt; an attempt that fails before or at the first chunk sends
\* nothing and the worker starts a fresh attempt at once.
SampleOnlyOnSuccess ==
    [][/\ Len(chan') > Len(chan) =>
            \E w \in DOMAIN pc :
                /\ pc[w] = "send"
                /\ nread[w] >= 1
                /\ last_read[w] \in DrainOutcomes
                /\ ttft[w] # None
                /\ chan' = Append(chan, LatencyResult(ttft[w], total[w]))
                /\ pc'[w] = "await_status"
                /\ nread'[w] = 0
       /\ \A w \in DOMAIN pc :
            /\ pc[w] = "await_status" => pc'[w] \in {"await_status", "store_printed", "first_chunk"}
            /\ pc[w] = "first_chunk" /\ pc'[w] # "first_chunk" =>
                \/ pc'[w] = "drain" /\ nread'[w] = 1 /\ chan' = chan
                \/ pc'[w] = "await_status" /\ req_start'[w] = now /\ chan' = chan
            /\ pc'[w] = "send" => pc[w] \in {"drain", "send"} /\ nread'[w] >= 1
      ]_vars

\* A sample has been sent, and the attempt that claimed the printed flag has
\* failed at its first chunk and was restarted.
SampleOnlyOnSuccessWitness ==
    /\ chan # <<>>
    /\ printed
    /\ \A w \in DOMAIN pc : ~should_print[w] /\ stdout[w] = <<>>

\* C6: an error while reading a chunk after the first one makes the attempt
\* fail: no sample of that attempt is sent.
TruncationSendsNoSample ==
    [][\A w \in DOMAIN pc :
        last_read[w] = "error" => ~(pc[w] = "send" /\ Len(chan') > Len(chan) /\ pc'[w] # "send")
      ]_vars

Samples == Range(chan) \cup Range(results)

\* C7: every sample sent satisfies total >= ttft >= 0.
SampleOrdered == \A r \in Samples : r.total >= r.ttft /\ r.ttft >= 0

SampleOrderedWitness ==
    /\ \E r \in Range(results) : r.ttft > 0
    /\ \E r \in Range(results) : r.total > r.ttft

\* C8: the closure p returns the element at index min(floor(len * q), len - 1),
\* an index within bounds, and the single element of a singleton list.
PercentileNearestRank ==
    p_out # <<>> =>
        LET n == Len(p_data) IN
        /\ p_out.idx \in 0..(n - 1)
        /\ \E k \in 0..n :
            /\ 100 * k <= n * p_perc
            /\ n * p_perc < 100 * (k + 1)
            /\ p_out.idx = IF k <= n - 1 THEN k ELSE n - 1
        /\ p_out.ms[1] = p_data[p_out.idx + 1]
        /\ p_out.ms[2] = 1000000
        /\ n = 1 => p_out.ms[1] = p_data[1]

PercentileNearestRankWitness ==
    /\ p_out # <<>>
    /\ Len(p_data) = MaxLen
    /\ p_perc = 50
    /\ p_data[1] < p_data[2]
    /\ p_data[2] < p_data[3]
    /\ p_out.idx = 1

\* C9: when every attempt fails, no sample is sent, the results stay empty,
\* the collector stays in its loop and the workers keep retrying.
AllFailNoSample ==
    backend # "ok" =>
        /\ chan = <<>>
        /\ results = <<>>
        /\ main_pc = "collect"
        /\ \A w \in DOMAIN pc : pc[w] \in {"start", "await_status", "store_printed", "first_chunk"}
        /\ backend = "http500" => \A w \in DOMAIN pc : pc[w] \in {"start", "await_status"}

AllFailNoSampleWitness ==
    /\ backend = "http500"
    /\ concurrency = MaxConcurrency
    /\ now = MaxClock
    /\ \A w \in DOMAIN pc : pc[w] = "await_status" /\ req_start[w] = MaxClock

\* C10: in a fair run on which attempts do not fail forever, the collector
\* eventually returns with exactly `requests` samples and the report.
Terminates ==
    backend = "ok" => <>(main_pc = "done" /\ Len(results) = requests /\ report # <<>>)

TerminatesWitness ==
    /\ main_pc = "done"
    /\ concurrency < requests
    /\ Len(results) = requests
    /\ report.success = requests

\* The percentiles and the means of a statistics record.
StatsValues(st) ==
    {st.ttft_p50, st.ttft_p95, st.ttft_p99, st.total_p50, st.total_p95, st.total_p99}

\* C11: statistics are computed only when at least one sample was collected;
\* with zero successes only the counts are reported, nothing is divided by
\* the success count and no empty list is indexed.
StatsOnlyWithSamples ==
    report # <<>> =>
        /\ report.success = Len(results)
        /\ report.stats # <<>> <=> report.success > 0
        /\ report.stats # <<>> =>
            /\ <<>> \notin StatsValues(report.stats)
            /\ report.stats.ttft_avg[2] # 0
            /\ report.stats.total_avg[2] # 0

StatsOnlyWithSamplesWitness ==
    /\ report # <<>>
    /\ report.success = 0
    /\ report.failed = requests
    /\ report.stats = <<>>

\* C12: a worker that has a sample to send never finds the channel full.
ProducersNeverBlock ==
    \A w \in DOMAIN pc : pc[w] = "send" => Len(chan) < requests

\* C12 as amended: the channel never holds more than `requests` samples, and
\* a worker with a sample to send can send it at once whenever the channel
\* holds fewer; it waits only while the channel holds `requests` samples.
SendWaitsOnlyWhenFull ==
    /\ Len(chan) <= requests
    /\ \A w \in DOMAIN pc :
        pc[w] = "send" /\ main_pc # "done" =>
            (ENABLED Send(w) <=> Len(chan) < requests)

SendWaitsOnlyWhenFullWitness ==
    /\ main_pc = "collect"
    /\ Len(chan) = requests
    /\ \E w \in DOMAIN pc : pc[w] = "send" /\ ~ENABLED Send(w)

LoopPositions == {"start", "await_status", "store_printed", "first_chunk", "drain", "send"}

\* C13: no worker ever leaves its loop, a Sender is alive while the collector
\* collects, recv never yields None, and the collector never returns with
\* fewer than `requests` samples.
NoEarlyReturn ==
    /\ \A w \in DOMAIN pc : pc[w] \in LoopPositions
    /\ DOMAIN pc = 1..concurrency
    /\ senders = 1 + concurrency
    /\ ~RecvNone
    /\ main_pc = "done" => Len(results) = requests

\* The collector waits on an empty channel after some worker's sample has
\* been received and every worker has restarted.
NoEarlyReturnWitness ==
    /\ main_pc = "collect"
    /\ chan = <<>>
    /\ results # <<>>
    /\ Len(results) < requests
    /\ \A w \in DOMAIN pc : pc[w] = "await_status"

\* The orders in which the samples of s can arrive.
Arrivals(s) ==
    LET n == Len(s)
        perms == {f \in [1..n -> 1..n] : \A i, j \in 1..n : f[i] = f[j] => i = j}
    IN  {[i \in 1..n |-> s[f[i]]] : f \in perms}

Ttfts(res) == [i \in 1..Len(res) |-> res[i].ttft]
Totals(res) == [i \in 1..Len(res) |-> res[i].total]

\* C14: the sorted lists and the statistics are the same for every order in
\* which the same samples arrive.
OrderIndependent ==
    report # <<>> =>
        \A other \in Arrivals(results) :
            /\ Sort(Ttfts(other)) = Sort(Ttfts(results))
            /\ Sort(Totals(other)) = Sort(Totals(results))
            /\ ReportOf(other, total_time) = report

\* Three samples that arrived in an order that is sorted for neither list.
OrderIndependentWitness ==
    /\ report # <<>>
    /\ Len(results) = 3
    /\ results[1].ttft > results[2].ttft
    /\ results[2].total > results[3].total
    /\ report.stats.ttft_p50 # report.stats.ttft_p99

FailedCountExact ==
    report # <<>> =>
        /\ report.total = requests
        /\ report.success = Len(results)
        /\ report.success <= requests
        /\ report.failed = requests - Len(results)
        /\ report.failed >= 0

FailedCountExactWitness ==
    /\ report # <<>>
    /\ requests = MaxRequests
    /\ report.success = MaxRequests
    /\ report.failed = 0
    /\ chan # <<>>

\* A worker waiting in sender.send for room in the channel.
BlockedOnSend(w) == pc[w] = "send" /\ ~ENABLED Send(w)

\* C17: while the collector collects there is no deadlock: whenever a worker
\* is blocked on its send the channel is full and the collector can receive,
\* and the collector never waits on an empty channel with every worker blocked.
NoDeadlockWhileCollecting ==
    main_pc = "collect" =>
        /\ \A w \in DOMAIN pc :
            BlockedOnSend(w) => Len(chan) = requests /\ RecvSome
        /\ ~(chan = <<>> /\ \A w \in DOMAIN pc : BlockedOnSend(w))
        /\ (\A w \in DOMAIN pc : pc[w] = "send") =>
                RecvSome \/ \E w \in DOMAIN pc : ENABLED Send(w)

NoDeadlockWhileCollectingWitness ==
    /\ main_pc = "collect"
    /\ concurrency = MaxConcurrency
    /\ \A w \in DOMAIN pc : BlockedOnSend(w)
    /\ RecvSome

\* C18: the printed flag only goes from false to true, and with printing
\* disabled no worker writes the flag, decides to echo or writes a chunk.
FlagMonotoneAndSilent ==
    [][/\ printed => printed'
       /\ ~print_enabled =>
            /\ ~printed'
            /\ \A w \in DOMAIN pc : ~should_print'[w] /\ stdout'[w] = <<>>
      ]_vars

\* Printing is disabled and a whole body has been read and its sample sent.
FlagMonotoneAndSilentWitness ==
    /\ ~print_enabled
    /\ results # <<>>
    /\ \E w \in DOMAIN pc : pc[w] = "send" /\ nread[w] = MaxChunks

====
